---- MODULE Spec2Model ----
(***************************************************************************)
(* Model of the simulation engine of src/src/evm.rs (struct Evm): the      *)
(* forked execution backend it owns (a cache database over a remote        *)
(* snapshot, plus the execution environment), and the operations call_raw, *)
(* call_raw_committing, override_account, set_block, set_block_timestamp   *)
(* and the getters; of load_config of src/src/config.rs; and of the        *)
(* requests of the sessions that src/src/main.rs keeps in its map of       *)
(* engines, each request borrowing its session's engine exclusively.       *)
(*                                                                         *)
(* Option<T> is modelled as a sequence of length at most one: <<>> is None *)
(* and <<v>> is Some(v).                                                   *)
(***************************************************************************)
EXTENDS Integers, Sequences, FiniteSets, TLC

\* ------------------------------------------------------------------ bounds

\* Largest balance / nonce / storage value / block number a request carries.
MaxWord == 2

\* Number of engine operations in a run.
MaxOps == 2

\* Longest value given to ETHERSCAN_KEY and API_KEY.
MaxKeyLen == 2

\* Number of requests the sessions receive in a run.
MaxRequests == 2

\* ------------------------------------------------------------- value sets

None == <<>>

Some(v) == <<v>>

IsSome(o) == Len(o) = 1

\* Option::unwrap_or_default for numeric options.
UnwrapOrZero(o) == IF IsSome(o) THEN o[1] ELSE 0

Addrs == {"A", "B"}

\* Contract bytecode, by what it does when called: "" is empty code,
\* "Store" writes its call data word to slot 1, "Revert" reverts.
Codes == {"", "Store", "Revert"}

\* 32-byte storage keys (H256), abbreviated to their two low-order bytes
\* <<high, low>>.
Hashes == {<<0, 1>>, <<0, 2>>, <<1, 0>>}

\* Uint::from_big_endian(key.as_bytes()): the most significant byte first.
FromBigEndian(h) == h[1] * 256 + h[2]

SlotIndexes == {FromBigEndian(h) : h \in Hashes}

\* The default AccountInfo: zero balance, zero nonce, no code.
DefaultInfo == [balance |-> 0, nonce |-> 0, code |-> ""]

\* Option::unwrap_or_default for an optional AccountInfo.
UnwrapOrDefaultInfo(o) == IF IsSome(o) THEN o[1] ELSE DefaultInfo

\* Option::unwrap_or_default for optional bytes.
UnwrapOrEmpty(o) == IF IsSome(o) THEN o[1] ELSE <<>>

\* An empty HashMap.
EmptyMap == [k \in {} |-> 0]

\* HashMap::extend: the entries of g are inserted into f, replacing equal keys.
Extend(f, g) ==
    [k \in DOMAIN f \cup DOMAIN g |-> IF k \in DOMAIN g THEN g[k] ELSE f[k]]

\* --------------------------------------------------- the execution backend

\* The remote snapshot the fork is anchored at: B is a funded contract with two
\* non-zero slots, A is not found.
RemoteBasic(a) ==
    IF a = "B" THEN Some([balance |-> 1, nonce |-> 1, code |-> "Store"])
    ELSE None

RemoteStorage(a, i) ==
    IF a = "B" /\ i = 1 THEN 1
    ELSE IF a = "B" /\ i = 2 THEN 2
    ELSE 0

\* A cache entry for an address seen for the first time (DbAccount::default).
DefaultDbAccount ==
    [info |-> DefaultInfo, account_state |-> "None", storage |-> EmptyMap]

\* Account::new_not_existing() with the given info.
NewAccount(info) ==
    [info |-> info, storage |-> EmptyMap, storage_cleared |-> FALSE,
     is_destroyed |-> FALSE]

\* backend.basic(address): the cached info when the address is cached,
\* otherwise the remote's answer.
DbBasic(db, a) ==
    IF a \in DOMAIN db
    THEN IF db[a].account_state = "NotExisting" THEN None ELSE Some(db[a].info)
    ELSE RemoteBasic(a)

\* backend.storage(address, index): a cached slot, else zero when the
\* account's storage was replaced, else the remote's value.
DbStorage(db, a, i) ==
    IF a \in DOMAIN db
    THEN IF i \in DOMAIN db[a].storage THEN db[a].storage[i]
         ELSE IF db[a].account_state \in {"StorageCleared", "NotExisting"} THEN 0
         ELSE RemoteStorage(a, i)
    ELSE RemoteStorage(a, i)

\* The cache entry of one address after one committed account.
CommitAccount(entry, account) ==
    IF account.is_destroyed
    THEN [info |-> DefaultInfo, account_state |-> "NotExisting",
          storage |-> EmptyMap]
    ELSE [info |-> account.info,
          account_state |->
              IF account.storage_cleared THEN "StorageCleared"
              ELSE IF entry.account_state = "StorageCleared"
                   THEN "StorageCleared"
                   ELSE "Touched",
          storage |->
              Extend(IF account.storage_cleared THEN EmptyMap ELSE entry.storage,
                     account.storage)]

\* backend.commit(changes): every account of the change set is written.
Commit(db, changes) ==
    [a \in DOMAIN db \cup DOMAIN changes |->
        IF a \in DOMAIN changes
        THEN CommitAccount(IF a \in DOMAIN db THEN db[a] ELSE DefaultDbAccount,
                           changes[a])
        ELSE db[a]]

\* What a read of an account through the backend shows.
ReadAccount(db, a) ==
    [info |-> UnwrapOrDefaultInfo(DbBasic(db, a)),
     storage |-> [i \in SlotIndexes |-> DbStorage(db, a, i)]]

ReadAll(db) == [a \in Addrs |-> ReadAccount(db, a)]

\* The first word of the call data; empty call data reads as zero.
CalldataWord(bytes) == IF Len(bytes) = 0 THEN 0 ELSE bytes[1]

\* The trace arena of one top-level call: its nodes in depth-first pre-order.
\* A call into "Store" code makes one nested static call back to the caller.
TraceArena(from, to, code, value) ==
    <<[kind |-> "CALL", caller |-> from, address |-> to, value |-> value]>>
    \o (IF code = "Store"
        THEN <<[kind |-> "STATICCALL", caller |-> to, address |-> from,
                value |-> 0]>>
        ELSE <<>>)

\* One execution of a call against the database db under environment e:
\* either an error, or the raw result together with the change set the
\* execution produced.  The sender's nonce is incremented; the value is
\* transferred unless the callee reverts; "Store" code writes slot 1 and
\* emits one log.
Execute(db, e, tracing_on, from, to, data, value) ==
    LET caller == UnwrapOrDefaultInfo(DbBasic(db, from))
        callee == UnwrapOrDefaultInfo(DbBasic(db, to))
        code == callee.code
        reverted == code = "Revert"
        moved == IF reverted \/ from = to THEN 0 ELSE value
        callerPost == [caller EXCEPT !.nonce = @ + 1, !.balance = @ - moved]
        calleePost == IF from = to THEN callerPost
                      ELSE [callee EXCEPT !.balance = @ + moved]
        writes == IF code = "Store" THEN (1 :> CalldataWord(data)) ELSE EmptyMap
        changes ==
            IF from = to
            THEN (from :> [NewAccount(callerPost) EXCEPT !.storage = writes])
            ELSE (from :> NewAccount(callerPost))
                 @@ (to :> [NewAccount(calleePost) EXCEPT !.storage = writes])
    IN  IF value > caller.balance
        THEN [ok |-> FALSE]
        ELSE [ok |-> TRUE,
              gas_used |-> IF code = "" THEN "transfer" ELSE code,
              reverted |-> reverted,
              env |-> e,
              traces |-> IF tracing_on
                         THEN Some(TraceArena(from, to, code, value))
                         ELSE None,
              logs |-> IF code = "Store"
                       THEN <<[address |-> to, data |-> CalldataWord(data)]>>
                       ELSE <<>>,
              exit_reason |-> IF reverted THEN "Revert" ELSE "Stop",
              result |-> <<>>,
              state_changeset |-> changes]

\* executor.call_raw: the call runs on a copy of the state; nothing is kept.
ExecutorCallRaw(db, e, tracing_on, backend_ok, from, to, data, value) ==
    LET res == IF backend_ok
               THEN Execute(db, e, tracing_on, from, to, data, value)
               ELSE [ok |-> FALSE]
    IN  [res |-> res, db |-> db]

\* executor.call_raw_committing: the change set of a completed execution is
\* committed to the database.
ExecutorCallRawCommitting(db, e, tracing_on, backend_ok, from, to, data, value) ==
    LET res == IF backend_ok
               THEN Execute(db, e, tracing_on, from, to, data, value)
               ELSE [ok |-> FALSE]
    IN  [res |-> res,
         db |-> IF res.ok THEN Commit(db, res.state_changeset) ELSE db]

\* backend.basic(address) as override_account sees it: a cached address is
\* answered from the cache; any other needs the remote, which may fail.
BackendBasic(db, a, rpc_ok) ==
    IF a \in DOMAIN db \/ rpc_ok
    THEN [ok |-> TRUE, info |-> DbBasic(db, a)]
    ELSE [ok |-> FALSE]

\* The address labeler's answer for an address of a trace, when it has one.
LabelOf(a) == IF a = "B" THEN Some("Store contract") ELSE None

\* decoder.identify + decoder.decode + Display of an arena: one text block per
\* node, in the arena's order; without a labeler every node stays unlabeled.
RenderArena(arena, labeler) ==
    [i \in 1..Len(arena) |->
        [kind |-> arena[i].kind, address |-> arena[i].address,
         label |-> IF labeler THEN LabelOf(arena[i].address) ELSE None]]

\* ------------------------------------------------------------- the engine

VARIABLES
    accounts,              \* executor.backend: the cache database of the fork
    env,                   \* executor.env: block, cfg and tx fields
    tracing,               \* the tracing flag the executor was built with
    etherscan_identifier,  \* whether Evm::new obtained an address labeler
    pre,                   \* accounts as they were before the last operation
    preEnv,                \* env as it was before the last operation
    last,                  \* the last operation: its request and what it returned
    history,               \* the operations performed so far, oldest first
    provided,              \* per address and field, the last override of it
    block_set,             \* the number last given to set_block, if any
    environ,               \* the process environment load_config reads
    config,                \* what load_config produced, once it has run
    requests,              \* per request: its session, operation and position
    borrowed,              \* per session: whether its engine is borrowed
    hung                   \* the sessions whose address labeler never answers

engineVars == <<accounts, env, tracing, etherscan_identifier, pre, preEnv,
                last, history, provided, block_set>>

configVars == <<environ, config>>

sessionVars == <<requests, borrowed, hung>>

vars == <<engineVars, configVars, sessionVars>>

\* Evm::set_access_list: the request's list, or the empty list, converted
\* item by item (address, storage keys as numbers).
SetAccessList(access_list) ==
    LET items == UnwrapOrEmpty(access_list)
    IN  [i \in 1..Len(items) |->
            [address |-> items[i].address,
             storage_keys |->
                 [j \in 1..Len(items[i].storage_keys) |->
                     FromBigEndian(items[i].storage_keys[j])]]]

\* formatted_trace built whether or not it was requested.
FormatTrace_Always(format_trace, traces, labeler) ==
    Some(IF IsSome(traces) THEN RenderArena(traces[1], labeler) ELSE <<>>)

\* The formatted_trace of a call: absent unless requested; when requested, the
\* rendering of every arena the execution returned, concatenated.
FormatTrace(format_trace, traces, labeler) ==
    IF format_trace
    THEN Some(IF IsSome(traces) THEN RenderArena(traces[1], labeler) ELSE <<>>)
    ELSE None

\* The CallRawResult with the block timestamp in the block_number field.
MakeCallRawResult_Timestamp(res, formatted_trace) ==
    [gas_used |-> res.gas_used,
     block_number |-> res.env.block_timestamp,
     success |-> ~res.reverted,
     trace |-> res.traces,
     logs |-> res.logs,
     exit_reason |-> res.exit_reason,
     return_data |-> res.result,
     formatted_trace |-> formatted_trace]

\* The CallRawResult built from the executor's raw result.
MakeCallRawResult(res, formatted_trace) ==
    [gas_used |-> res.gas_used,
     block_number |-> res.env.block_number,
     success |-> ~res.reverted,
     trace |-> res.traces,
     logs |-> res.logs,
     exit_reason |-> res.exit_reason,
     return_data |-> res.result,
     formatted_trace |-> formatted_trace]

\* A call returning, beside the error, a result holding the formatted trace.
CallReturn_PartialOnError(ex, call, labeler) ==
    IF ex.res.ok
    THEN [ok |-> TRUE,
          value |-> MakeCallRawResult(
                        ex.res,
                        FormatTrace(call.format_trace, ex.res.traces, labeler))]
    ELSE [ok |-> FALSE, error |-> "EvmError",
          value |-> [formatted_trace |->
                         FormatTrace(call.format_trace, None, labeler)]]

\* A call failing when a trace is to be formatted and no labeler is at hand.
CallReturn_NeedsLabeler(ex, call, labeler) ==
    IF ex.res.ok /\ (call.format_trace => labeler)
    THEN [ok |-> TRUE,
          value |-> MakeCallRawResult(
                        ex.res,
                        FormatTrace(call.format_trace, ex.res.traces, labeler))]
    ELSE [ok |-> FALSE, error |-> "EvmError"]

\* The Result a call returns, given what the executor returned.
CallReturn(ex, call, labeler) ==
    IF ex.res.ok
    THEN [ok |-> TRUE,
          value |-> MakeCallRawResult(
                        ex.res,
                        FormatTrace(call.format_trace, ex.res.traces, labeler))]
    ELSE [ok |-> FALSE, error |-> "EvmError"]

\* call_raw leaving the access list alone when the request has none.
CallRawOutcome_KeepsAccessList(db, e, tracing_on, labeler, call, backend_ok) ==
    LET e1 == IF IsSome(call.access_list)
              THEN [e EXCEPT !.access_list = SetAccessList(call.access_list)]
              ELSE e
        ex == ExecutorCallRaw(db, e1, tracing_on, backend_ok, call.from,
                              call.to, UnwrapOrEmpty(call.data),
                              UnwrapOrZero(call.value))
    IN  [db |-> ex.db, env |-> e1, ret |-> CallReturn(ex, call, labeler),
         executed |-> IF ex.res.ok THEN <<ex.res.env>> ELSE <<>>,
         executions |-> 1]

\* call_raw written with the committing executor call.
CallRawOutcome_Committing(db, e, tracing_on, labeler, call, backend_ok) ==
    LET e1 == [e EXCEPT !.access_list = SetAccessList(call.access_list)]
        ex == ExecutorCallRawCommitting(db, e1, tracing_on, backend_ok,
                                        call.from, call.to,
                                        UnwrapOrEmpty(call.data),
                                        UnwrapOrZero(call.value))
    IN  [db |-> ex.db, env |-> e1, ret |-> CallReturn(ex, call, labeler),
         executed |-> IF ex.res.ok THEN <<ex.res.env>> ELSE <<>>,
         executions |-> 1]

\* call_raw assigning the access list only once the execution has succeeded.
CallRawOutcome_AccessListOnSuccess(db, e, tracing_on, labeler, call, backend_ok) ==
    LET e1 == [e EXCEPT !.access_list = SetAccessList(call.access_list)]
        ex == ExecutorCallRaw(db, e1, tracing_on, backend_ok, call.from,
                              call.to, UnwrapOrEmpty(call.data),
                              UnwrapOrZero(call.value))
    IN  [db |-> ex.db, env |-> IF ex.res.ok THEN e1 ELSE e,
         ret |-> CallReturn(ex, call, labeler),
         executed |-> IF ex.res.ok THEN <<ex.res.env>> ELSE <<>>,
         executions |-> 1]

\* Evm::call_raw as a function of the engine state and the request: the
\* database, environment and return value after it.
CallRawOutcome(db, e, tracing_on, labeler, call, backend_ok) ==
    LET e1 == [e EXCEPT !.access_list = SetAccessList(call.access_list)]
        ex == ExecutorCallRaw(db, e1, tracing_on, backend_ok, call.from,
                              call.to, UnwrapOrEmpty(call.data),
                              UnwrapOrZero(call.value))
    IN  [db |-> ex.db, env |-> e1, ret |-> CallReturn(ex, call, labeler),
         executed |-> IF ex.res.ok THEN <<ex.res.env>> ELSE <<>>,
         executions |-> 1]

\* call_raw_committing passing the recipient as the sender and the sender as
\* the recipient.
CallRawCommittingOutcome_Swapped(db, e, tracing_on, labeler, call, backend_ok) ==
    LET e1 == [e EXCEPT !.access_list = SetAccessList(call.access_list)]
        ex == ExecutorCallRawCommitting(db, e1, tracing_on, backend_ok,
                                        call.to, call.from,
                                        UnwrapOrEmpty(call.data),
                                        UnwrapOrZero(call.value))
    IN  [db |-> ex.db, env |-> e1, ret |-> CallReturn(ex, call, labeler),
         executed |-> IF ex.res.ok THEN <<ex.res.env>> ELSE <<>>,
         executions |-> 1]

\* call_raw_committing returning its result without the formatted trace.
CallRawCommittingOutcome_NoFormat(db, e, tracing_on, labeler, call, backend_ok) ==
    LET e1 == [e EXCEPT !.access_list = SetAccessList(call.access_list)]
        ex == ExecutorCallRawCommitting(db, e1, tracing_on, backend_ok,
                                        call.from, call.to,
                                        UnwrapOrEmpty(call.data),
                                        UnwrapOrZero(call.value))
    IN  [db |-> ex.db, env |-> e1,
         ret |-> CallReturn(ex, [call EXCEPT !.format_trace = FALSE], labeler),
         executed |-> IF ex.res.ok THEN <<ex.res.env>> ELSE <<>>,
         executions |-> 1]

\* Evm::call_raw_committing, likewise.
CallRawCommittingOutcome(db, e, tracing_on, labeler, call, backend_ok) ==
    LET e1 == [e EXCEPT !.access_list = SetAccessList(call.access_list)]
        ex == ExecutorCallRawCommitting(db, e1, tracing_on, backend_ok,
                                        call.from, call.to,
                                        UnwrapOrEmpty(call.data),
                                        UnwrapOrZero(call.value))
    IN  [db |-> ex.db, env |-> e1, ret |-> CallReturn(ex, call, labeler),
         executed |-> IF ex.res.ok THEN <<ex.res.env>> ELSE <<>>,
         executions |-> 1]

\* override_account with the storage flag taken from diff unnegated.
OverriddenAccount_FlagIsDiff(info, balance, nonce, code, storage) ==
    LET i1 == IF IsSome(balance) THEN [info EXCEPT !.balance = balance[1]]
              ELSE info
        i2 == IF IsSome(nonce) THEN [i1 EXCEPT !.nonce = nonce[1]] ELSE i1
        i3 == IF IsSome(code) THEN [i2 EXCEPT !.code = code[1]] ELSE i2
        account == NewAccount(i3)
    IN  IF IsSome(storage)
        THEN [account EXCEPT
                 !.storage_cleared = storage[1].diff,
                 !.storage =
                     [k \in {FromBigEndian(h) : h \in DOMAIN storage[1].slots} |->
                         storage[1].slots[CHOOSE h \in DOMAIN storage[1].slots :
                                              FromBigEndian(h) = k]]]
        ELSE account

\* override_account never marking the storage as replaced.
OverriddenAccount_NeverCleared(info, balance, nonce, code, storage) ==
    LET i1 == IF IsSome(balance) THEN [info EXCEPT !.balance = balance[1]]
              ELSE info
        i2 == IF IsSome(nonce) THEN [i1 EXCEPT !.nonce = nonce[1]] ELSE i1
        i3 == IF IsSome(code) THEN [i2 EXCEPT !.code = code[1]] ELSE i2
        account == NewAccount(i3)
    IN  IF IsSome(storage)
        THEN [account EXCEPT
                 !.storage =
                     [k \in {FromBigEndian(h) : h \in DOMAIN storage[1].slots} |->
                         storage[1].slots[CHOOSE h \in DOMAIN storage[1].slots :
                                              FromBigEndian(h) = k]]]
        ELSE account

\* override_account starting from an empty account instead of the backend's
\* current info.
OverriddenAccount_FromDefault(info, balance, nonce, code, storage) ==
    LET i1 == IF IsSome(balance)
              THEN [DefaultInfo EXCEPT !.balance = balance[1]]
              ELSE DefaultInfo
        i2 == IF IsSome(nonce) THEN [i1 EXCEPT !.nonce = nonce[1]] ELSE i1
        i3 == IF IsSome(code) THEN [i2 EXCEPT !.code = code[1]] ELSE i2
        account == NewAccount(i3)
    IN  IF IsSome(storage)
        THEN [account EXCEPT
                 !.storage_cleared = ~storage[1].diff,
                 !.storage =
                     [k \in {FromBigEndian(h) : h \in DOMAIN storage[1].slots} |->
                         storage[1].slots[CHOOSE h \in DOMAIN storage[1].slots :
                                              FromBigEndian(h) = k]]]
        ELSE account

\* override_account leaving the balance as the backend has it.
OverriddenAccount_DropsBalance(info, balance, nonce, code, storage) ==
    LET i2 == IF IsSome(nonce) THEN [info EXCEPT !.nonce = nonce[1]] ELSE info
        i3 == IF IsSome(code) THEN [i2 EXCEPT !.code = code[1]] ELSE i2
        account == NewAccount(i3)
    IN  IF IsSome(storage)
        THEN [account EXCEPT
                 !.storage_cleared = ~storage[1].diff,
                 !.storage =
                     [k \in {FromBigEndian(h) : h \in DOMAIN storage[1].slots} |->
                         storage[1].slots[CHOOSE h \in DOMAIN storage[1].slots :
                                              FromBigEndian(h) = k]]]
        ELSE account

\* override_account marking the storage replaced whenever no storage is given.
OverriddenAccount_ClearsWithoutStorage(info, balance, nonce, code, storage) ==
    LET i1 == IF IsSome(balance) THEN [info EXCEPT !.balance = balance[1]]
              ELSE info
        i2 == IF IsSome(nonce) THEN [i1 EXCEPT !.nonce = nonce[1]] ELSE i1
        i3 == IF IsSome(code) THEN [i2 EXCEPT !.code = code[1]] ELSE i2
        account == NewAccount(i3)
    IN  IF IsSome(storage)
        THEN [account EXCEPT
                 !.storage_cleared = ~storage[1].diff,
                 !.storage =
                     [k \in {FromBigEndian(h) : h \in DOMAIN storage[1].slots} |->
                         storage[1].slots[CHOOSE h \in DOMAIN storage[1].slots :
                                              FromBigEndian(h) = k]]]
        ELSE [account EXCEPT !.storage_cleared = TRUE]

\* The account override_account commits: the backend's info with the provided
\* fields replaced, and the provided storage slots.
OverriddenAccount(info, balance, nonce, code, storage) ==
    LET i1 == IF IsSome(balance) THEN [info EXCEPT !.balance = balance[1]]
              ELSE info
        i2 == IF IsSome(nonce) THEN [i1 EXCEPT !.nonce = nonce[1]] ELSE i1
        i3 == IF IsSome(code) THEN [i2 EXCEPT !.code = code[1]] ELSE i2
        account == NewAccount(i3)
    IN  IF IsSome(storage)
        THEN [account EXCEPT
                 !.storage_cleared = ~storage[1].diff,
                 !.storage =
                     [k \in {FromBigEndian(h) : h \in DOMAIN storage[1].slots} |->
                         storage[1].slots[CHOOSE h \in DOMAIN storage[1].slots :
                                              FromBigEndian(h) = k]]]
        ELSE account

\* override_account treating an unreadable account as an empty one.
OverrideOutcome_IgnoresError(db, address, balance, nonce, code, storage, rpc_ok) ==
    LET basic == BackendBasic(db, address, rpc_ok)
    IN  [db |-> Commit(db, address :>
                    OverriddenAccount(
                        IF basic.ok THEN UnwrapOrDefaultInfo(basic.info)
                        ELSE DefaultInfo,
                        balance, nonce, code, storage)),
         ret |-> [ok |-> TRUE],
         reads |-> 1]

\* override_account refusing an address the backend reports as not found.
OverrideOutcome_NotFoundIsError(db, address, balance, nonce, code, storage, rpc_ok) ==
    LET basic == BackendBasic(db, address, rpc_ok)
    IN  IF ~basic.ok \/ ~IsSome(basic.info)
        THEN [db |-> db, ret |-> [ok |-> FALSE, error |-> "OverrideError"],
              reads |-> 1]
        ELSE [db |-> Commit(db, address :>
                        OverriddenAccount(basic.info[1], balance, nonce, code,
                                          storage)),
              ret |-> [ok |-> TRUE],
              reads |-> 1]

\* Evm::override_account as a function of the engine state and the request.
OverrideOutcome(db, address, balance, nonce, code, storage, rpc_ok) ==
    LET basic == BackendBasic(db, address, rpc_ok)
    IN  IF ~basic.ok
        THEN [db |-> db, ret |-> [ok |-> FALSE, error |-> "OverrideError"],
              reads |-> 1]
        ELSE [db |-> Commit(db, address :>
                        OverriddenAccount(UnwrapOrDefaultInfo(basic.info),
                                          balance, nonce, code, storage)),
              ret |-> [ok |-> TRUE],
              reads |-> 1]

\* --------------------------------------------------------------- requests

\* Access lists a request may carry.
AccessLists ==
    {None,
     Some(<<>>),
     Some(<<[address |-> "B", storage_keys |-> <<<<0, 1>>, <<1, 0>>>>]>>)}

\* CallRawRequest values: every sender, recipient and value with no call data,
\* one call with call data, and one call in every access-list and formatting
\* variant.
CallRawRequests ==
    [from : Addrs, to : Addrs, value : {None, Some(1)}, data : {None},
     access_list : {None}, format_trace : {FALSE}]
    \cup
    [from : {"A"}, to : {"B"}, value : {None}, data : {Some(<<MaxWord>>)},
     access_list : {None}, format_trace : {FALSE}]
    \cup
    [from : {"A"}, to : {"B"}, value : {None}, data : {Some(<<1>>)},
     access_list : AccessLists, format_trace : BOOLEAN]

\* The calls the backend is also tried with while it is unavailable.
FailingCallRawRequests ==
    {call \in CallRawRequests : call.data = Some(<<1>>)}

\* StorageOverride values.
StorageOverrides ==
    [slots : {EmptyMap, <<0, 1>> :> MaxWord, <<1, 0>> :> 1}, diff : BOOLEAN]

\* override_account arguments: balance and nonce overrides, code overrides,
\* storage overrides, and a storage override together with a balance.
OverrideRequests ==
    [address : Addrs, balance : {None, Some(1), Some(MaxWord)},
     nonce : {None, Some(MaxWord)}, code : {None}, storage : {None}]
    \cup
    [address : Addrs, balance : {None}, nonce : {None},
     code : {Some(""), Some("Revert")}, storage : {None}]
    \cup
    [address : Addrs, balance : {None}, nonce : {None}, code : {None},
     storage : {Some(s) : s \in StorageOverrides}]
    \cup
    [address : Addrs, balance : {Some(1)}, nonce : {None}, code : {None},
     storage : {Some([slots |-> <<0, 2>> :> 1, diff |-> TRUE])}]

\* The overrides also tried while the remote cannot be read.
FailingOverrideRequests ==
    {r \in OverrideRequests : r.nonce = None /\ r.code = None}

\* Block numbers and timestamps the setters are given.
BlockValues == {1, MaxWord}

NoRequest == [none |-> TRUE]

\* History kept beside the engine state: for each address and field,
\* <<>> while no override has provided the field, <<v>> after the last override
\* that provided v, and <<v, v>> once a committed call has changed the field
\* since.
NotProvided == [balance |-> <<>>, nonce |-> <<>>, code |-> <<>>]

ProvidedAfterOverride(p, r, ok) ==
    IF ok
    THEN [p EXCEPT ![r.address] =
             [balance |-> IF IsSome(r.balance) THEN r.balance ELSE @.balance,
              nonce |-> IF IsSome(r.nonce) THEN r.nonce ELSE @.nonce,
              code |-> IF IsSome(r.code) THEN r.code ELSE @.code]]
    ELSE p

ProvidedAfterCommit(p, call, ok) ==
    IF ok
    THEN [a \in Addrs |->
             IF a \in {call.from, call.to}
             THEN [p[a] EXCEPT !.balance = <<0, 0>>, !.nonce = <<0, 0>>]
             ELSE p[a]]
    ELSE p

\* ------------------------------------------------------------------- Init

\* Evm::new: an empty cache over the fork, the fork's environment with an
\* empty access list, and the tracing flag and labeler as constructed.
EngineInit ==
    /\ accounts = EmptyMap
    /\ env = [block_number |-> 0, block_timestamp |-> 0, chain_id |-> 1,
              access_list |-> <<>>]
    /\ tracing \in BOOLEAN
    /\ etherscan_identifier \in BOOLEAN
    /\ pre = EmptyMap
    /\ preEnv = env
    /\ last = [op |-> "new", req |-> NoRequest, ret |-> [ok |-> TRUE]]
    /\ history = <<>>
    /\ provided = [a \in Addrs |-> NotProvided]
    /\ block_set = None

\* ---------------------------------------------------------------- actions

call_raw(call, backend_ok) ==
    LET out == CallRawOutcome(accounts, env, tracing, etherscan_identifier,
                              call, backend_ok)
    IN  /\ Len(history) < MaxOps
        /\ backend_ok \/ call \in FailingCallRawRequests
        /\ accounts' = out.db
        /\ env' = out.env
        /\ pre' = accounts
        /\ preEnv' = env
        /\ last' = [op |-> "call_raw", req |-> call, ret |-> out.ret,
                    backend_ok |-> backend_ok, executed |-> out.executed, executions |-> out.executions]
        /\ history' = Append(history, "call_raw")
        /\ UNCHANGED provided
        /\ UNCHANGED <<tracing, etherscan_identifier, block_set>>
        /\ UNCHANGED <<configVars, sessionVars>>

call_raw_committing(call, backend_ok) ==
    LET out == CallRawCommittingOutcome(accounts, env, tracing,
                                        etherscan_identifier, call, backend_ok)
    IN  /\ Len(history) < MaxOps
        /\ backend_ok \/ call \in FailingCallRawRequests
        /\ accounts' = out.db
        /\ env' = out.env
        /\ pre' = accounts
        /\ preEnv' = env
        /\ last' = [op |-> "call_raw_committing", req |-> call,
                    ret |-> out.ret, backend_ok |-> backend_ok,
                    executed |-> out.executed, executions |-> out.executions]
        /\ history' = Append(history, "call_raw_committing")
        /\ provided' = ProvidedAfterCommit(provided, call, out.ret.ok)
        /\ UNCHANGED <<tracing, etherscan_identifier, block_set>>
        /\ UNCHANGED <<configVars, sessionVars>>

override_account(r, rpc_ok) ==
    LET out == OverrideOutcome(accounts, r.address, r.balance, r.nonce, r.code,
                               r.storage, rpc_ok)
    IN  /\ Len(history) < MaxOps
        \* the remote can fail only when it is asked
        /\ rpc_ok \/ (r.address \notin DOMAIN accounts
                      /\ r \in FailingOverrideRequests)
        /\ accounts' = out.db
        /\ pre' = accounts
        /\ preEnv' = env
        /\ last' = [op |-> "override_account", req |-> r, ret |-> out.ret,
                    rpc_ok |-> rpc_ok, reads |-> out.reads]
        /\ history' = Append(history, "override_account")
        /\ provided' = ProvidedAfterOverride(provided, r, out.ret.ok)
        /\ UNCHANGED <<env, tracing, etherscan_identifier, block_set>>
        /\ UNCHANGED <<configVars, sessionVars>>

\* set_block writing the timestamp field.
SetBlock_Timestamp(e, number) == [e EXCEPT !.block_timestamp = number]

\* Evm::set_block's new environment.
SetBlock(e, number) == [e EXCEPT !.block_number = number]

\* Evm::get_block.
GetBlock(e) == e.block_number

\* Evm::set_block_timestamp's new environment.
SetBlockTimestamp(e, timestamp) == [e EXCEPT !.block_timestamp = timestamp]

\* Evm::get_block_timestamp.
GetBlockTimestamp(e) == e.block_timestamp

\* Evm::get_chain_id.
GetChainId(e) == e.chain_id

set_block(number) ==
    /\ Len(history) < MaxOps
    /\ env' = SetBlock(env, number)
    /\ pre' = accounts
    /\ preEnv' = env
    /\ last' = [op |-> "set_block", req |-> number, ret |-> [ok |-> TRUE]]
    /\ history' = Append(history, "set_block")
    /\ UNCHANGED provided
    /\ block_set' = Some(number)
    /\ UNCHANGED <<accounts, tracing, etherscan_identifier>>
    /\ UNCHANGED <<configVars, sessionVars>>

set_block_timestamp(timestamp) ==
    /\ Len(history) < MaxOps
    /\ env' = SetBlockTimestamp(env, timestamp)
    /\ pre' = accounts
    /\ preEnv' = env
    /\ last' = [op |-> "set_block_timestamp", req |-> timestamp,
                ret |-> [ok |-> TRUE]]
    /\ history' = Append(history, "set_block_timestamp")
    /\ UNCHANGED provided
    /\ UNCHANGED <<accounts, tracing, etherscan_identifier, block_set>>
    /\ UNCHANGED <<configVars, sessionVars>>

Next ==
    \/ \E call \in CallRawRequests, backend_ok \in BOOLEAN :
           call_raw(call, backend_ok)
    \/ \E call \in CallRawRequests, backend_ok \in BOOLEAN :
           call_raw_committing(call, backend_ok)
    \/ \E r \in OverrideRequests, rpc_ok \in BOOLEAN : override_account(r, rpc_ok)
    \/ \E number \in BlockValues : set_block(number)
    \/ \E timestamp \in BlockValues : set_block_timestamp(timestamp)

\* ------------------------------------------------------------ the sessions

\* The sessions of the map of engines, one engine each.
Sessions == {"s1", "s2"}

\* The operations a request asks of its session's engine; format_trace
\* matters for the two calls only.
SessionRequests ==
    [op : {"call_raw", "call_raw_committing"}, format_trace : BOOLEAN]
    \cup [op : {"override_account", "set_block", "set_block_timestamp"},
          format_trace : {FALSE}]

\* No request received, no engine borrowed.
SessionIdle ==
    /\ requests = <<>>
    /\ borrowed = {}
    /\ hung = {}

\* The engine of one session, with tracing and a labeler, left at rest.
EngineIdle == EngineInit /\ tracing /\ etherscan_identifier

SessionInit ==
    /\ requests = <<>>
    /\ borrowed = {}
    /\ hung \in SUBSET Sessions

\* A guard taken whatever it holds.
CanBorrow_Shared(b, s) == TRUE

\* One guard for all the engines.
CanBorrow_OneForAll(b, s) == b = {}

\* The exclusive-access guard of a session: free while no request holds the
\* session's engine.
CanBorrow(b, s) == s \notin b

\* Whether the request makes the engine format a trace, and so look up labels.
Formats(r) == r.op \in {"call_raw", "call_raw_committing"} /\ r.format_trace

\* A request arrives for a session and waits for the session's engine.
receive(s, r) ==
    /\ Len(requests) < MaxRequests
    /\ requests' = Append(requests, [session |-> s, op |-> r.op,
                                     format_trace |-> r.format_trace,
                                     pc |-> "waiting"])
    /\ UNCHANGED <<borrowed, hung, engineVars, configVars>>

\* The request obtains the engine (&mut self) and its operation starts.
begin(i) ==
    /\ i \in DOMAIN requests
    /\ requests[i].pc = "waiting"
    /\ CanBorrow(borrowed, requests[i].session)
    /\ requests' = [requests EXCEPT ![i].pc = "running"]
    /\ borrowed' = borrowed \cup {requests[i].session}
    /\ UNCHANGED <<hung, engineVars, configVars>>

\* The call has executed and, formatting its trace, asks the labeler.
identify(i) ==
    /\ i \in DOMAIN requests
    /\ requests[i].pc = "running"
    /\ Formats(requests[i])
    /\ requests' = [requests EXCEPT ![i].pc = "identify"]
    /\ UNCHANGED <<borrowed, hung, engineVars, configVars>>

\* The labeler answers (or fails), unless it is one that never does; the trace
\* is decoded and rendered.
labeled(i) ==
    /\ i \in DOMAIN requests
    /\ requests[i].pc = "identify"
    /\ requests[i].session \notin hung
    /\ requests' = [requests EXCEPT ![i].pc = "decoded"]
    /\ UNCHANGED <<borrowed, hung, engineVars, configVars>>

\* The operation returns and the engine is given back.
finish(i) ==
    /\ i \in DOMAIN requests
    /\ \/ requests[i].pc = "running" /\ ~Formats(requests[i])
       \/ requests[i].pc = "decoded"
    /\ requests' = [requests EXCEPT ![i].pc = "done"]
    /\ borrowed' = borrowed \ {requests[i].session}
    /\ UNCHANGED <<hung, engineVars, configVars>>

SessionNext ==
    \/ \E s \in Sessions, r \in SessionRequests : receive(s, r)
    \/ \E i \in 1..MaxRequests : begin(i)
    \/ \E i \in 1..MaxRequests : identify(i)
    \/ \E i \in 1..MaxRequests : labeled(i)
    \/ \E i \in 1..MaxRequests : finish(i)

\* ------------------------------------------------------------- config.rs

\* An environment variable is not present, holds bytes that are not valid
\* Unicode, or holds a string (a sequence of characters, possibly empty).
NotPresent == [kind |-> "NotPresent", value |-> <<>>]

NotUnicode == [kind |-> "NotUnicode", value |-> <<>>]

Present(s) == [kind |-> "Unicode", value |-> s]

\* std::env::var: Ok(the string), or Err(NotPresent / NotUnicode).
EnvVar(e, name) ==
    IF e[name].kind = "Unicode"
    THEN [ok |-> TRUE, value |-> e[name].value]
    ELSE [ok |-> FALSE, error |-> e[name].kind]

\* Result::unwrap_or.
UnwrapOr(r, default) == IF r.ok THEN r.value ELSE default

\* Result::ok.
ResultOk(r) == IF r.ok THEN Some(r.value) ELSE None

\* .filter(|k| !k.is_empty()) dropping the test.
FilterNonEmpty_KeepsEmpty(o) == o

\* .filter(|k| !k.is_empty()) on an Option<String>.
FilterNonEmpty(o) == IF IsSome(o) /\ Len(o[1]) # 0 THEN o ELSE None

DigitChars == <<"0", "1", "2", "3", "4", "5", "6", "7", "8", "9">>

DigitValue(c) == (CHOOSE i \in 1..Len(DigitChars) : DigitChars[i] = c) - 1

RECURSIVE DecimalValue(_)
DecimalValue(s) ==
    IF s = <<>> THEN 0
    ELSE DecimalValue(SubSeq(s, 1, Len(s) - 1)) * 10 + DigitValue(s[Len(s)])

\* str::parse for an unsigned integer type, before the range test: an
\* optional "+", then one or more decimal digits and nothing else.
ParseDecimal(s) ==
    LET digits == IF Len(s) > 0 /\ s[1] = "+" THEN Tail(s) ELSE s
    IN  IF \/ digits = <<>>
           \/ \E i \in 1..Len(digits) :
                  \A d \in 1..Len(DigitChars) : digits[i] # DigitChars[d]
        THEN [ok |-> FALSE]
        ELSE [ok |-> TRUE, value |-> DecimalValue(digits)]

\* u16::MAX.
U16Max == 65535

\* str::parse::<u16>.
ParseU16(s) ==
    IF ParseDecimal(s).ok /\ ParseDecimal(s).value > U16Max
    THEN [ok |-> FALSE]
    ELSE ParseDecimal(s)

\* str::parse::<u64>. The sizes given here have at most two digits, so the
\* range test of the u64 parse and the product with 1024 never overflow.
ParseU64(s) == ParseDecimal(s)

\* load_config: the Config it returns, or the message it panics with.
LoadConfig(e) ==
    LET port == ParseU16(UnwrapOr(EnvVar(e, "PORT"), <<"8", "0", "8", "0">>))
        etherscan_key == FilterNonEmpty(ResultOk(EnvVar(e, "ETHERSCAN_KEY")))
        api_key == FilterNonEmpty(ResultOk(EnvVar(e, "API_KEY")))
        max_request_size ==
            ParseU64(UnwrapOr(EnvVar(e, "MAX_REQUEST_SIZE"), <<"1", "6">>))
    IN  IF ~port.ok
        THEN [panicked |-> TRUE, message |-> "PORT must be a valid u16."]
        ELSE IF ~max_request_size.ok
        THEN [panicked |-> TRUE,
              message |-> "MAX_REQUEST_SIZE must be a valid u64"]
        ELSE [panicked |-> FALSE,
              config |-> [port |-> port.value,
                          etherscan_key |-> etherscan_key,
                          api_key |-> api_key,
                          max_request_size |-> max_request_size.value * 1024]]

\* The strings of at most n characters of a set.
Strings(chars, n) == UNION {[1..k -> chars] : k \in 0..n}

\* What ETHERSCAN_KEY and API_KEY are given.
KeyValues ==
    {NotPresent, NotUnicode} \cup {Present(s) : s \in Strings({"a", " "}, MaxKeyLen)}

\* What PORT is given.
PortValues ==
    {NotPresent, Present(<<"8", "0">>), Present(<<"6", "5", "5", "3", "6">>),
     Present(<<"n", "o">>)}

\* What MAX_REQUEST_SIZE is given.
SizeValues == {NotPresent, Present(<<"1">>), Present(<<>>)}

EnvNames == {"PORT", "ETHERSCAN_KEY", "API_KEY", "MAX_REQUEST_SIZE"}

\* No environment read, no configuration loaded.
ConfigIdle ==
    /\ environ = [name \in EnvNames |-> NotPresent]
    /\ config = None

ConfigInit ==
    /\ environ \in {e \in [EnvNames -> KeyValues \cup PortValues \cup SizeValues] :
                       /\ e["PORT"] \in PortValues
                       /\ e["ETHERSCAN_KEY"] \in KeyValues
                       /\ e["API_KEY"] \in KeyValues
                       /\ e["MAX_REQUEST_SIZE"] \in SizeValues}
    /\ config = None

load_config ==
    /\ config = None
    /\ config' = Some(LoadConfig(environ))
    /\ UNCHANGED <<environ, engineVars, sessionVars>>

ConfigNext == load_config

\* --------------------------------------------------------- specifications

Init == EngineInit /\ ConfigIdle /\ SessionIdle

Spec == Init /\ [][Next]_vars

\* load_config applied to every environment drawn.
ConfigSpecInit == EngineIdle /\ ConfigInit /\ SessionIdle

ConfigSpec == ConfigSpecInit /\ [][ConfigNext]_vars

\* The requests of the sessions under any interleaving.
SessionSpecInit == EngineIdle /\ ConfigIdle /\ SessionInit

SessionSpec == SessionSpecInit /\ [][SessionNext]_vars

\* The same, every request running as a task of its own that is scheduled
\* again and again: a step of a request that stays possible is taken. A
\* lookup of a labeler that never answers has no such step.
FairSessionSpec ==
    /\ SessionSpec
    /\ \A i \in 1..MaxRequests :
           /\ WF_vars(begin(i))
           /\ WF_vars(identify(i))
           /\ WF_vars(labeled(i))
           /\ WF_vars(finish(i))

\* ----------------------------------------------------------------- claims

IsCall == last.op \in {"call_raw", "call_raw_committing"}

\* C1: call_raw, whether it returns a result or an error, leaves the balance,
\* nonce, code and every storage slot of every address as the backend showed
\* them immediately before the call; as this holds after every call_raw, any
\* number of consecutive calls leaves them unchanged too.
C1_CallRawIsPure ==
    last.op = "call_raw" => ReadAll(accounts) = ReadAll(pre)

\* A call_raw that succeeded, made after another call_raw, carrying a value and
\* addressed to the storing contract: its execution produced a state diff.
C1_Witness ==
    /\ history = <<"call_raw", "call_raw">>
    /\ last.ret.ok
    /\ last.req.from = "B" /\ last.req.to = "B"
    /\ last.req.value = Some(1)
    /\ ReadAccount(accounts, "B").info.nonce = 1

\* The account reads a committed execution of the call must leave, given the
\* reads before it: the sender's nonce is one higher, the value has moved from
\* sender to recipient unless the recipient reverts, and storing code has
\* written the call data word to its slot 1.
ReadsAfterCall(reads, call) ==
    LET code == reads[call.to].info.code
        moved == IF code = "Revert" \/ call.from = call.to
                 THEN 0 ELSE UnwrapOrZero(call.value)
        word == IF IsSome(call.data) THEN call.data[1][1] ELSE 0
    IN  [a \in Addrs |->
            [info |->
                 [balance |-> reads[a].info.balance
                              - (IF a = call.from THEN moved ELSE 0)
                              + (IF a = call.to THEN moved ELSE 0),
                  nonce |-> reads[a].info.nonce
                            + (IF a = call.from THEN 1 ELSE 0),
                  code |-> reads[a].info.code],
             storage |->
                 [i \in SlotIndexes |->
                     IF a = call.to /\ code = "Store" /\ i = 1 THEN word
                     ELSE reads[a].storage[i]]]]

\* C2: after a successful call_raw_committing every account reads as it did
\* before the call plus exactly the diff of the execution; and a call_raw
\* executes against the state as it then is: it fails for lack of funds, or
\* succeeds, reverts and logs, as the sender's and recipient's current reads
\* decide.
C2_CommittingPersists ==
    /\ (last.op = "call_raw_committing" /\ last.ret.ok)
           => ReadAll(accounts) = ReadsAfterCall(ReadAll(pre), last.req)
    /\ (last.op = "call_raw" /\ last.backend_ok)
           => LET now == ReadAll(accounts)
                  code == now[last.req.to].info.code
              IN  /\ last.ret.ok =
                         (UnwrapOrZero(last.req.value)
                              <= now[last.req.from].info.balance)
                  /\ last.ret.ok =>
                         /\ last.ret.value.success = (code # "Revert")
                         /\ (last.ret.value.logs # <<>>) = (code = "Store")

\* A committed transfer of B's funds to A, then a call_raw that spends them
\* from A: it succeeds only on the committed state.
C2_Witness ==
    /\ history = <<"call_raw_committing", "call_raw">>
    /\ last.ret.ok
    /\ last.req.from = "A" /\ last.req.value = Some(1)
    /\ ReadAccount(accounts, "A").info.balance = 1
    /\ ReadAccount(accounts, "B").info.balance = 0
    /\ ReadAccount(accounts, "B").info.nonce = 2

\* A successful override_account with a storage override of the given kind.
StorageOverridden(diff) ==
    /\ last.op = "override_account"
    /\ last.ret.ok
    /\ IsSome(last.req.storage)
    /\ last.req.storage[1].diff = diff

\* The slot a 32-byte key names: its bytes read as one number.
SlotOf(h) == IF h = <<0, 1>> THEN 1 ELSE IF h = <<0, 2>> THEN 2 ELSE 256

\* The value the last storage override lists for slot i, if it lists one.
Listed(i) ==
    LET slots == last.req.storage[1].slots
        hs == {h \in DOMAIN slots : SlotOf(h) = i}
    IN  IF hs = {} THEN None ELSE Some(slots[CHOOSE h \in hs : TRUE])

\* C3: after override_account with diff = true, a slot the override lists reads
\* the listed value and every other slot of the account reads what the backend
\* showed for it before the override (a previously set value, or the value
\* fetched from the remote snapshot).
C3_StorageDiff ==
    StorageOverridden(TRUE) =>
        \A i \in SlotIndexes :
            DbStorage(accounts, last.req.address, i) =
                IF IsSome(Listed(i)) THEN Listed(i)[1]
                ELSE DbStorage(pre, last.req.address, i)

\* The account with slots {1: 1, 2: 2}, slot 1 overridden to MaxWord with
\* diff = true: slot 1 reads MaxWord, slot 2 still 2, the unlisted slot 256
\* what the remote holds.
C3_Witness ==
    /\ StorageOverridden(TRUE)
    /\ last.req.address = "B"
    /\ last.req.storage[1].slots = (<<0, 1>> :> MaxWord)
    /\ DbStorage(pre, "B", 1) = 1 /\ DbStorage(pre, "B", 2) = 2
    /\ DbStorage(accounts, "B", 1) = MaxWord
    /\ DbStorage(accounts, "B", 2) = 2
    /\ DbStorage(accounts, "B", 256) = RemoteStorage("B", 256)

\* C4: after override_account with diff = false, a slot the override lists
\* reads the listed value and every other slot of the account reads zero,
\* whether it was set before or would have been fetched from the remote.
C4_StorageFullReplace ==
    StorageOverridden(FALSE) =>
        \A i \in SlotIndexes :
            DbStorage(accounts, last.req.address, i) =
                IF IsSome(Listed(i)) THEN Listed(i)[1] ELSE 0

\* The account with slots {1: 1, 2: 2}, slot 1 overridden to MaxWord with
\* diff = false: slot 1 reads MaxWord and slot 2 now reads zero.
C4_Witness ==
    /\ StorageOverridden(FALSE)
    /\ last.req.address = "B"
    /\ last.req.storage[1].slots = (<<0, 1>> :> MaxWord)
    /\ DbStorage(pre, "B", 1) = 1 /\ DbStorage(pre, "B", 2) = 2
    /\ DbStorage(accounts, "B", 1) = MaxWord
    /\ DbStorage(accounts, "B", 2) = 0

\* The value of a field after an override: the provided one, else the old one.
Merged(option, old) == IF IsSome(option) THEN option[1] ELSE old

\* C5: a successful override_account leaves each of balance, nonce and code
\* at the provided value, or, when the field is not provided, at the value the
\* backend held when the call was made; so each field holds the value of the
\* most recent override that provided it, and the remote's value while no
\* override has provided it and no committed call has changed it.
C5_OverrideMergesInfo ==
    /\ (last.op = "override_account" /\ last.ret.ok) =>
           LET old == ReadAccount(pre, last.req.address).info
               new == ReadAccount(accounts, last.req.address).info
           IN  /\ new.balance = Merged(last.req.balance, old.balance)
               /\ new.nonce = Merged(last.req.nonce, old.nonce)
               /\ new.code = Merged(last.req.code, old.code)
    /\ \A a \in Addrs :
           LET now == ReadAccount(accounts, a).info
               orig == UnwrapOrDefaultInfo(RemoteBasic(a))
           IN  /\ Len(provided[a].balance) < 2 =>
                      now.balance = Merged(provided[a].balance, orig.balance)
               /\ Len(provided[a].nonce) < 2 =>
                      now.nonce = Merged(provided[a].nonce, orig.nonce)
               /\ Len(provided[a].code) < 2 =>
                      now.code = Merged(provided[a].code, orig.code)

\* Two overrides of B: the first set its balance to MaxWord, the second sets
\* only the nonce; the balance of the first and the remote's code remain.
C5_Witness ==
    /\ history = <<"override_account", "override_account">>
    /\ last.ret.ok
    /\ last.req.address = "B"
    /\ last.req.balance = None /\ last.req.nonce = Some(MaxWord)
    /\ ReadAccount(pre, "B").info.balance = MaxWord
    /\ ReadAccount(accounts, "B").info =
           [balance |-> MaxWord, nonce |-> MaxWord, code |-> "Store"]

\* C6: when the backend cannot read the address's basic info (the address is
\* not cached and the remote read fails), override_account returns
\* OverrideError after that one read and commits nothing: the database is as
\* it was.
C6_OverrideErrorCommitsNothing ==
    (/\ last.op = "override_account"
     /\ ~last.rpc_ok
     /\ last.req.address \notin DOMAIN pre)
        => /\ last.ret = [ok |-> FALSE, error |-> "OverrideError"]
           /\ accounts = pre
           /\ last.reads = 1

\* A failed override of B, which asked for a balance and a slot, made after
\* another account had been written.
C6_Witness ==
    /\ history = <<"override_account", "override_account">>
    /\ ~last.ret.ok
    /\ last.req.address = "B"
    /\ IsSome(last.req.balance) /\ IsSome(last.req.storage)
    /\ "A" \in DOMAIN accounts
    /\ ReadAccount(accounts, "B").info.balance = 1

\* The access list the execution context must hold for a request's list:
\* empty for an absent or empty list, else its items with numeric slot keys.
ExpectedAccessList(access_list) ==
    IF access_list = None \/ access_list = Some(<<>>) THEN <<>>
    ELSE <<[address |-> "B", storage_keys |-> <<1, 256>>]>>

\* C7: a call_raw or call_raw_committing overwrites the context's access list
\* with the request's list, or the empty list when the request has none, before
\* the backend executes (the execution ran under it), and it stays so after the
\* call, on success and on error; no other operation changes it, so it always
\* equals the list of the most recent call request.
C7_AccessListOverwritten ==
    /\ IsCall =>
           /\ env.access_list = ExpectedAccessList(last.req.access_list)
           /\ last.ret.ok =>
                  last.executed[1].access_list =
                      ExpectedAccessList(last.req.access_list)
    /\ last.op \in {"override_account", "set_block", "set_block_timestamp"}
           => env.access_list = preEnv.access_list

\* A call without an access list made after a call that had set a non-empty
\* one: the context's list is empty again.
C7_Witness ==
    /\ Len(history) = 2 /\ history[1] = "call_raw_committing"
    /\ last.op = "call_raw"
    /\ last.ret.ok
    /\ preEnv.access_list = <<[address |-> "B", storage_keys |-> <<1, 256>>]>>
    /\ last.req.access_list = None
    /\ env.access_list = <<>>

\* C8: set_block(N) succeeds and get_block() then returns N, and
\* set_block_timestamp(T) succeeds and get_block_timestamp() then returns T;
\* after either, every account's balance, nonce, code and storage read as
\* before it.
C8_SettersLeaveState ==
    /\ last.op = "set_block" =>
           /\ last.ret.ok
           /\ GetBlock(env) = last.req
           /\ ReadAll(accounts) = ReadAll(pre)
    /\ last.op = "set_block_timestamp" =>
           /\ last.ret.ok
           /\ GetBlockTimestamp(env) = last.req
           /\ ReadAll(accounts) = ReadAll(pre)

\* set_block(MaxWord) after B's balance was overridden: the block number is
\* MaxWord and B's balance still reads as overridden.
C8_Witness ==
    /\ history = <<"override_account", "set_block">>
    /\ last.req = MaxWord
    /\ GetBlock(env) = MaxWord
    /\ GetBlockTimestamp(env) = 0
    /\ ReadAccount(accounts, "B").info.balance = MaxWord

\* C9: the block_number of the result of a successful call_raw or
\* call_raw_committing is the number most recently given to set_block, and the
\* execution ran under it.
C9_SetBlockTakesEffect ==
    (IsCall /\ last.ret.ok /\ IsSome(block_set)) =>
        /\ last.ret.value.block_number = block_set[1]
        /\ last.executed[1].block_number = block_set[1]

\* The call right after set_block(MaxWord) reports block MaxWord.
C9_Witness ==
    /\ history = <<"set_block", "call_raw">>
    /\ last.ret.ok
    /\ block_set = Some(MaxWord)
    /\ last.ret.value.block_number = MaxWord

\* C10: in the result of a successful call, with tracing enabled the raw trace
\* is present, and the rendered text is present with it exactly when
\* format_trace was set; the rendered text is never present unless formatting
\* was requested, and the raw trace never unless tracing was enabled.
C10_TraceFormattingToggle ==
    (IsCall /\ last.ret.ok) =>
        LET v == last.ret.value
        IN  /\ (tracing /\ ~last.req.format_trace) =>
                   (IsSome(v.trace) /\ ~IsSome(v.formatted_trace))
            /\ (tracing /\ last.req.format_trace) =>
                   (IsSome(v.trace) /\ IsSome(v.formatted_trace))
            /\ IsSome(v.formatted_trace) => last.req.format_trace
            /\ IsSome(v.trace) => tracing

\* A traced call with format_trace set: the trace and a non-empty rendered text
\* are both returned.
C10_Witness ==
    /\ IsCall /\ last.ret.ok
    /\ tracing /\ last.req.format_trace
    /\ IsSome(last.ret.value.trace)
    /\ IsSome(last.ret.value.formatted_trace)
    /\ Len(last.ret.value.formatted_trace[1]) = Len(last.ret.value.trace[1])
    /\ Len(last.ret.value.trace[1]) = 2

\* C11: a call_raw that sends value X from an account whose balance reads below
\* X does not succeed; when the most recent override of the sender's balance
\* provided at least X (and no committed call has changed it since), the same
\* call is executed and succeeds unless the recipient's code reverts.
C11_OverrideThenSimulate ==
    (last.op = "call_raw" /\ last.backend_ok) =>
        LET X == UnwrapOrZero(last.req.value)
            sender == last.req.from
            given == provided[sender].balance
        IN  /\ ReadAccount(pre, sender).info.balance < X => ~last.ret.ok
            /\ (IsSome(given) /\ given[1] >= X) =>
                   /\ last.ret.ok
                   /\ ReadAccount(pre, last.req.to).info.code # "Revert"
                          => last.ret.value.success

\* A's balance, zero on the remote, was overridden to 1; the call sending 1
\* from A to B right after it succeeds.
C11_Witness ==
    /\ history = <<"override_account", "call_raw">>
    /\ UnwrapOrDefaultInfo(RemoteBasic("A")).balance < 1
    /\ provided["A"].balance = Some(1)
    /\ last.req.from = "A" /\ last.req.to = "B" /\ last.req.value = Some(1)
    /\ last.ret.ok /\ last.ret.value.success

\* C12: when the backend is unavailable or refuses the call (the value exceeds
\* the sender's balance), call_raw and call_raw_committing return the execution
\* error alone, with no result and no formatted trace, after one execution
\* attempt; nothing was executed.
C12_ExecutionErrorOnce ==
    (/\ IsCall
     /\ \/ ~last.backend_ok
        \/ UnwrapOrZero(last.req.value)
               > ReadAccount(pre, last.req.from).info.balance)
        => /\ last.ret = [ok |-> FALSE, error |-> "EvmError"]
           /\ last.executions = 1
           /\ last.executed = <<>>

\* A committing call that asked for a formatted trace while the backend was
\* unavailable, on a traced engine.
C12_Witness ==
    /\ last.op = "call_raw_committing"
    /\ ~last.backend_ok
    /\ last.req.format_trace /\ tracing
    /\ ~last.ret.ok
    /\ accounts = pre

\* C13: what call_raw returned and left in the execution context is what
\* call_raw_committing returns and leaves for the same request from the same
\* engine state, and the other way round; call_raw leaves the accounts as they
\* were, call_raw_committing leaves them with the execution's diff.
C13_RawAndCommittingAgree ==
    /\ last.op = "call_raw" =>
           LET other == CallRawCommittingOutcome(pre, preEnv, tracing,
                            etherscan_identifier, last.req, last.backend_ok)
           IN  /\ last.ret = other.ret
               /\ env = other.env
               /\ ReadAll(accounts) = ReadAll(pre)
    /\ last.op = "call_raw_committing" =>
           LET other == CallRawOutcome(pre, preEnv, tracing,
                            etherscan_identifier, last.req, last.backend_ok)
           IN  /\ last.ret = other.ret
               /\ env = other.env
               /\ last.ret.ok =>
                      ReadAll(accounts) = ReadsAfterCall(ReadAll(pre), last.req)

\* A traced, formatted committing call with an access list that changed the
\* accounts.
C13_Witness ==
    /\ last.op = "call_raw_committing"
    /\ last.ret.ok
    /\ tracing /\ last.req.format_trace
    /\ last.req.access_list # None /\ env.access_list # <<>>
    /\ IsSome(last.ret.value.formatted_trace)
    /\ last.ret.value.logs # <<>>
    /\ ReadAll(accounts) # ReadAll(pre)

\* What the last call would have returned on an engine with a working labeler.
WithLabeler ==
    IF last.op = "call_raw"
    THEN CallRawOutcome(pre, preEnv, tracing, TRUE, last.req, last.backend_ok).ret
    ELSE CallRawCommittingOutcome(pre, preEnv, tracing, TRUE, last.req,
                                  last.backend_ok).ret

\* C14: whenever the backend executed the call, call_raw and
\* call_raw_committing return a result, with or without a labeler and whether
\* or not the labeler knows the addresses of the trace; its gas used, success
\* flag, logs, exit reason and return data are those returned with a working
\* labeler.
C14_EnrichmentNeverFails ==
    (IsCall /\ last.executed # <<>>) =>
        /\ last.ret.ok
        /\ WithLabeler.ok
        /\ last.ret.value.gas_used = WithLabeler.value.gas_used
        /\ last.ret.value.success = WithLabeler.value.success
        /\ last.ret.value.logs = WithLabeler.value.logs
        /\ last.ret.value.exit_reason = WithLabeler.value.exit_reason
        /\ last.ret.value.return_data = WithLabeler.value.return_data

\* A traced call formatted on an engine without a labeler: the trace is
\* rendered with every node unlabeled, where a labeler would have labeled one.
C14_Witness ==
    /\ IsCall /\ last.ret.ok
    /\ ~etherscan_identifier /\ tracing /\ last.req.format_trace
    /\ IsSome(last.ret.value.formatted_trace)
    /\ Len(last.ret.value.formatted_trace[1]) = 2
    /\ \A i \in 1..2 : last.ret.value.formatted_trace[1][i].label = None
    /\ last.ret.value.formatted_trace # WithLabeler.value.formatted_trace

\* Whether the backend holds the account's storage as fully replaced.
StorageReplaced(db, a) ==
    a \in DOMAIN db /\ db[a].account_state = "StorageCleared"

\* C18: override_account without a storage override leaves every storage slot
\* of the target, and whether its storage is marked fully replaced, as before;
\* and every override_account, successful or not, leaves every other account
\* and the execution context (block number, timestamp, chain id, access list)
\* as before.
C18_OverrideFrame ==
    last.op = "override_account" =>
        /\ last.req.storage = None =>
               /\ \A i \in SlotIndexes :
                      DbStorage(accounts, last.req.address, i) =
                          DbStorage(pre, last.req.address, i)
               /\ StorageReplaced(accounts, last.req.address) =
                      StorageReplaced(pre, last.req.address)
        /\ \A a \in Addrs \ {last.req.address} :
               /\ ReadAccount(accounts, a) = ReadAccount(pre, a)
               /\ (a \in DOMAIN accounts) = (a \in DOMAIN pre)
               /\ a \in DOMAIN pre => accounts[a] = pre[a]
        /\ env = preEnv

\* B's storage had been fully replaced with slot 1 = MaxWord; an override of
\* B's balance alone keeps slot 1, the zero slot 2 and the mark.
C18_Witness ==
    /\ history = <<"override_account", "override_account">>
    /\ last.ret.ok
    /\ last.req.address = "B"
    /\ last.req.storage = None /\ IsSome(last.req.balance)
    /\ StorageReplaced(pre, "B") /\ StorageReplaced(accounts, "B")
    /\ DbStorage(accounts, "B", 1) = MaxWord
    /\ DbStorage(accounts, "B", 2) = 0
    /\ accounts # pre

\* C19: when call_raw or call_raw_committing fails, the execution context's
\* access list is nonetheless the failed request's list (empty when it has
\* none), while block number, timestamp and chain id are as before the call.
C19_FailedCallSetsAccessList ==
    (IsCall /\ ~last.ret.ok) =>
        /\ env.access_list = ExpectedAccessList(last.req.access_list)
        /\ GetBlock(env) = GetBlock(preEnv)
        /\ GetBlockTimestamp(env) = GetBlockTimestamp(preEnv)
        /\ GetChainId(env) = GetChainId(preEnv)

\* A failed call whose access list replaced the empty one of the context: the
\* failure changed the context.
C19_Witness ==
    /\ IsCall /\ ~last.ret.ok
    /\ preEnv.access_list = <<>>
    /\ env.access_list = <<[address |-> "B", storage_keys |-> <<1, 256>>]>>
    /\ env # preEnv

\* C20: override_account fails only when the read of the basic info fails; when
\* the backend answers that the address is not found, it succeeds, and the
\* committed account is the empty account (zero balance, zero nonce, no code)
\* with the provided fields applied.
C20_NotFoundIsDefault ==
    last.op = "override_account" =>
        /\ ~last.ret.ok =>
               (~last.rpc_ok /\ last.req.address \notin DOMAIN pre)
        /\ ((last.rpc_ok \/ last.req.address \in DOMAIN pre)
                /\ DbBasic(pre, last.req.address) = None) =>
               /\ last.ret.ok
               /\ last.req.address \in DOMAIN accounts
               /\ accounts[last.req.address].info =
                      [balance |-> Merged(last.req.balance, 0),
                       nonce |-> Merged(last.req.nonce, 0),
                       code |-> Merged(last.req.code, "")]

\* A, not found on the remote, overridden with a balance only.
C20_Witness ==
    /\ last.op = "override_account" /\ last.ret.ok
    /\ last.req.address = "A"
    /\ RemoteBasic("A") = None /\ "A" \notin DOMAIN pre
    /\ last.req.balance = Some(MaxWord) /\ last.req.nonce = None
    /\ accounts["A"].info = [balance |-> MaxWord, nonce |-> 0, code |-> ""]

\* The configuration load_config returned, when it returned one.
Loaded == IsSome(config) /\ ~config[1].panicked

\* What a key of the configuration must be for a value of its variable.
KeyFor(v) ==
    IF v.kind = "Unicode" /\ v.value # <<>> THEN Some(v.value) ELSE None

\* C17: load_config yields etherscan_key = Some(v) exactly when ETHERSCAN_KEY
\* is set to a non-empty string v, and None when it is unset or set to the
\* empty string; likewise api_key and API_KEY.
C17_KeysFromEnvironment ==
    Loaded =>
        /\ config[1].config.etherscan_key = KeyFor(environ["ETHERSCAN_KEY"])
        /\ config[1].config.api_key = KeyFor(environ["API_KEY"])
        /\ \A v \in Strings({"a", " "}, MaxKeyLen) :
               /\ config[1].config.etherscan_key = Some(v) <=>
                      (v # <<>> /\ environ["ETHERSCAN_KEY"] = Present(v))
               /\ config[1].config.api_key = Some(v) <=>
                      (v # <<>> /\ environ["API_KEY"] = Present(v))
        /\ environ["ETHERSCAN_KEY"] \in {NotPresent, Present(<<>>)} =>
               config[1].config.etherscan_key = None
        /\ environ["API_KEY"] \in {NotPresent, Present(<<>>)} =>
               config[1].config.api_key = None

\* ETHERSCAN_KEY set to "a" and API_KEY set to the empty string: the first is
\* kept, the second is dropped.
C17_Witness ==
    /\ Loaded
    /\ environ["ETHERSCAN_KEY"] = Present(<<"a">>)
    /\ environ["API_KEY"] = Present(<<>>)
    /\ config[1].config.etherscan_key = Some(<<"a">>)
    /\ config[1].config.api_key = None

\* The requests whose operation is in flight on the engine of session s.
InFlight(s) ==
    {i \in DOMAIN requests :
        requests[i].session = s /\ requests[i].pc \in {"running", "identify", "decoded"}}

\* C15: under any interleaving of requests, at most one operation is in flight
\* on the engine of a session at a time: a request for a session whose engine
\* is busy has not started.
C15_OneInFlightPerEngine ==
    \A s \in Sessions :
        /\ Cardinality(InFlight(s)) <= 1
        /\ InFlight(s) # {} => s \in borrowed

\* A second request for session s1 waits while the first is in flight.
C15_Witness ==
    /\ Len(requests) = 2
    /\ requests[1].session = "s1" /\ requests[2].session = "s1"
    /\ requests[1].pc = "running" /\ requests[2].pc = "waiting"
    /\ ~ENABLED begin(2)

\* Whether a label lookup that never returns is outstanding.
LookupHung ==
    \E j \in DOMAIN requests :
        requests[j].pc = "identify" /\ requests[j].session \in hung

====
